---- MODULE Spec2Model ----
(***************************************************************************)
(* Model of src/src/macosx_pthread.h: the pthread barrier emulation        *)
(* (pthread_barrier_init / _destroy / _wait) and the polling timed mutex   *)
(* lock (macos_pthread_mutex_timedlock).                                   *)
(*                                                                         *)
(* The barrier is modelled one source line per step, on top of a POSIX     *)
(* mutex and condition variable: pthread_cond_wait atomically releases the *)
(* mutex and blocks, a broadcast makes every blocked thread runnable, a    *)
(* runnable waiter re-acquires the mutex before pthread_cond_wait returns, *)
(* and POSIX allows pthread_cond_wait to return with no broadcast at all   *)
(* (a spurious wakeup).                                                    *)
(***************************************************************************)
EXTENDS Integers, FiniteSets, Sequences, TLC

\* ---------------------------------------------------------------- bounds
\* Number of threads that may call pthread_barrier_wait.
NThreads == 3
\* Largest number of pthread_barrier_wait calls made on one barrier.
MaxCalls == 6

Threads == 1..NThreads

\* Width in bits of int and unsigned int.  The source's 32 bits are scaled
\* down; the conversions below depend on the width only through 2^IntBits.
IntBits == 4
\* UINT_MAX and INT_MAX at that width
UIntMax == 2^IntBits - 1
IntMax == 2^(IntBits - 1) - 1

\* errno value set at line 46
EINVAL == 22

\* What pthread_mutex_init / pthread_cond_init can return: zero, or a
\* (positive) error number, here ENOMEM (12) and EAGAIN (35).
InitResults == {0, 12, 35}

VARIABLES
    count,        \* barrier->count
    tripCount,    \* barrier->tripCount
    mutexOK,      \* barrier->mutex is an initialised mutex
    condOK,       \* barrier->cond is an initialised condition variable
    mutexOwner,   \* thread holding barrier->mutex, 0 when it is free
    waiters,      \* threads blocked inside pthread_cond_wait
    initRet,      \* <<value>> of the last pthread_barrier_init, <<>> before it
    errno,        \* errno, 0 when never set
    initArgs,     \* the last pthread_barrier_init: count and platform results
    pc,           \* position of each thread in pthread_barrier_wait
    plan,         \* calls each thread is to make on this barrier
    todo,         \* calls each thread will still make on this barrier
    pos,          \* history: which increment of the barrier a thread's call did
    arrivals,     \* history: increments since pthread_barrier_init
    returned,     \* history: <<pos, return value>> of every finished call
    blockedEver   \* history: some call blocked in pthread_cond_wait

bvars == <<count, tripCount, mutexOK, condOK, mutexOwner, waiters, initRet,
           errno, initArgs, pc, plan, todo, pos, arrivals, returned,
           blockedEver>>

\* ------------------------------------------------------ pthread_barrier_init
\* line 44: if(count == 0)
InvalidCountNever(c) == c < 0
InvalidCount(c) == c = 0

\* lines 49, 53: if(pthread_..._init(...) < 0)
InitFailed(r) == r < 0

\* line 58: barrier->tripCount = count;  (unsigned int stored into an int)
\* A value above INT_MAX does not fit the int; the compilers of the target
\* (clang, gcc) reduce it modulo 2^width, which makes it negative.
StoredTripLess(c) == c - 1
StoredTrip(c) == IF c > IntMax THEN c - 2^IntBits ELSE c

NoArgs == [req |-> -1, rm |-> -1, rc |-> -1]

\* The barrier passed its pthread_barrier_init and both resources exist.
Usable == initRet = <<0>> /\ mutexOK /\ condOK

\* The calls the threads are to make on a barrier: at most MaxCalls in all.
\* Threads are interchangeable, so the busier threads come first.
RECURSIVE PlanTotal(_, _)
PlanTotal(f, n) == IF n = 0 THEN 0 ELSE f[n] + PlanTotal(f, n - 1)

Plans ==
    {f \in [Threads -> 0..MaxCalls] :
        /\ PlanTotal(f, NThreads) <= MaxCalls
        /\ \A t \in Threads : t > 1 => f[t] <= f[t - 1]}

pthread_barrier_init(c, rm, rc) ==
    /\ initRet # <<0>>
    /\ initArgs' = [req |-> c, rm |-> rm, rc |-> rc]
    /\ IF InvalidCount(c)
       THEN /\ errno' = EINVAL
            /\ initRet' = <<-1>>
            /\ UNCHANGED <<count, tripCount, mutexOK, condOK, plan, todo>>
       ELSE IF InitFailed(rm)
       THEN /\ initRet' = <<-1>>
            /\ mutexOK' = FALSE
            /\ UNCHANGED <<count, tripCount, condOK, errno, plan, todo>>
       ELSE IF InitFailed(rc)
       THEN \* pthread_mutex_destroy(&barrier->mutex)
            /\ initRet' = <<-1>>
            /\ mutexOK' = FALSE
            /\ condOK' = FALSE
            /\ UNCHANGED <<count, tripCount, errno, plan, todo>>
       ELSE /\ mutexOK' = (rm = 0)
            /\ condOK' = (rc = 0)
            /\ tripCount' = StoredTrip(c)
            /\ count' = 0
            /\ initRet' = <<0>>
            /\ UNCHANGED errno
            /\ IF rm = 0 /\ rc = 0
               THEN plan' \in Plans
               ELSE plan' = [t \in Threads |-> 0]
            /\ todo' = plan'
    /\ UNCHANGED <<mutexOwner, waiters, pc, pos, arrivals, returned,
                   blockedEver>>

\* --------------------------------------------------- pthread_barrier_destroy
\* Called once no thread is inside pthread_barrier_wait and none is about to
\* call it (destroying a barrier in use is undefined).
pthread_barrier_destroy ==
    /\ initRet = <<0>>
    /\ \A t \in Threads : pc[t] = "idle" /\ todo[t] = 0
    /\ condOK' = FALSE
    /\ mutexOK' = FALSE
    /\ initRet' = <<>>
    /\ initArgs' = NoArgs
    /\ pos' = [t \in Threads |-> 0]
    /\ arrivals' = 0
    /\ returned' = {}
    /\ blockedEver' = FALSE
    /\ plan' = [t \in Threads |-> 0]
    /\ UNCHANGED <<count, tripCount, mutexOwner, waiters, errno, pc, todo>>

\* ------------------------------------------------------ pthread_barrier_wait
\* A thread calls pthread_barrier_wait(barrier) on a usable barrier.
Call(t) ==
    /\ Usable
    /\ pc[t] = "idle"
    /\ todo[t] > 0
    /\ todo' = [todo EXCEPT ![t] = @ - 1]
    /\ pc' = [pc EXCEPT ![t] = "lock"]
    /\ pos' = [pos EXCEPT ![t] = 0]
    /\ UNCHANGED <<count, tripCount, mutexOK, condOK, mutexOwner, waiters,
                   initRet, errno, initArgs, plan, arrivals, returned,
                   blockedEver>>

\* line 88: pthread_mutex_lock(&barrier->mutex);
LockNoExclusion(t) ==
    /\ pc[t] = "lock"
    /\ mutexOwner' = t
    /\ pc' = [pc EXCEPT ![t] = "incr"]
    /\ UNCHANGED <<count, tripCount, mutexOK, condOK, waiters, initRet, errno,
                   initArgs, plan, todo, pos, arrivals, returned, blockedEver>>

Lock(t) ==
    /\ pc[t] = "lock"
    /\ mutexOwner = 0
    /\ mutexOwner' = t
    /\ pc' = [pc EXCEPT ![t] = "incr"]
    /\ UNCHANGED <<count, tripCount, mutexOK, condOK, waiters, initRet, errno,
                   initArgs, plan, todo, pos, arrivals, returned, blockedEver>>

\* line 89: ++(barrier->count);
Incr(t) ==
    /\ pc[t] = "incr"
    /\ count' = count + 1
    /\ arrivals' = arrivals + 1
    /\ pos' = [pos EXCEPT ![t] = arrivals + 1]
    /\ pc' = [pc EXCEPT ![t] = "test"]
    /\ UNCHANGED <<tripCount, mutexOK, condOK, mutexOwner, waiters, initRet,
                   errno, initArgs, plan, todo, returned, blockedEver>>

\* line 90: if(barrier->count >= barrier->tripCount)
TrippedStrict(c, trip) == c > trip
TrippedEarly(c, trip) == c >= trip - 1
Tripped(c, trip) == c >= trip

Test(t) ==
    /\ pc[t] = "test"
    /\ pc' = [pc EXCEPT ![t] = IF Tripped(count, tripCount)
                                 THEN "reset" ELSE "wait"]
    /\ UNCHANGED <<count, tripCount, mutexOK, condOK, mutexOwner, waiters,
                   initRet, errno, initArgs, plan, todo, pos, arrivals, returned,
                   blockedEver>>

\* line 92: barrier->count = 0;
ResetValueKept(c) == c
ResetValue(c) == 0

ResetThenUnlock(t) ==
    /\ pc[t] = "reset"
    /\ count' = ResetValue(count)
    /\ mutexOwner' = 0
    /\ pc' = [pc EXCEPT ![t] = "bcast"]
    /\ UNCHANGED <<tripCount, mutexOK, condOK, waiters, initRet, errno,
                   initArgs, plan, todo, pos, arrivals, returned, blockedEver>>

Reset(t) ==
    /\ pc[t] = "reset"
    /\ count' = ResetValue(count)
    /\ pc' = [pc EXCEPT ![t] = "bcast"]
    /\ UNCHANGED <<tripCount, mutexOK, condOK, mutexOwner, waiters, initRet,
                   errno, initArgs, plan, todo, pos, arrivals, returned, blockedEver>>

\* line 93: pthread_cond_broadcast(&barrier->cond);
\* every thread blocked on the condition becomes runnable
WokenBySignal(w) == IF w = {} THEN {} ELSE {CHOOSE t \in w : TRUE}
WokenByBroadcast(w) == w

Broadcast(t) ==
    /\ pc[t] = "bcast"
    /\ pc' = [u \in Threads |->
                IF u = t THEN "unlock1"
                ELSE IF u \in WokenByBroadcast(waiters) THEN "reacq"
                ELSE pc[u]]
    /\ waiters' = waiters \ WokenByBroadcast(waiters)
    /\ UNCHANGED <<count, tripCount, mutexOK, condOK, mutexOwner, initRet,
                   errno, initArgs, plan, todo, pos, arrivals, returned, blockedEver>>

\* lines 94-95: pthread_mutex_unlock(&barrier->mutex); return 1;
ReturnLast(t) ==
    /\ pc[t] = "unlock1"
    /\ mutexOwner' = 0
    /\ returned' = returned \cup {<<pos[t], 1>>}
    /\ pc' = [pc EXCEPT ![t] = "idle"]
    /\ UNCHANGED <<count, tripCount, mutexOK, condOK, waiters, initRet, errno,
                   initArgs, plan, todo, pos, arrivals, blockedEver>>

\* line 99: pthread_cond_wait(&barrier->cond, &(barrier->mutex));
\* entry: the mutex is released and the thread blocks, atomically
CondWait(t) ==
    /\ pc[t] = "wait"
    /\ mutexOwner' = 0
    /\ waiters' = waiters \cup {t}
    /\ blockedEver' = TRUE
    /\ pc' = [pc EXCEPT ![t] = "blocked"]
    /\ UNCHANGED <<count, tripCount, mutexOK, condOK, initRet, errno,
                   initArgs, plan, todo, pos, arrivals, returned>>

\* line 99, while blocked: POSIX lets pthread_cond_wait wake with no
\* broadcast or signal (a spurious wakeup)
SpuriousWake(t) ==
    /\ pc[t] = "blocked"
    /\ t \in waiters
    /\ waiters' = waiters \ {t}
    /\ pc' = [pc EXCEPT ![t] = "reacq"]
    /\ UNCHANGED <<count, tripCount, mutexOK, condOK, mutexOwner, initRet,
                   errno, initArgs, plan, todo, pos, arrivals, returned, blockedEver>>

\* line 99, exit: the woken thread re-acquires the mutex and
\* pthread_cond_wait returns
Reacquire(t) ==
    /\ pc[t] = "reacq"
    /\ mutexOwner = 0
    /\ mutexOwner' = t
    /\ pc' = [pc EXCEPT ![t] = "unlock0"]
    /\ UNCHANGED <<count, tripCount, mutexOK, condOK, waiters, initRet, errno,
                   initArgs, plan, todo, pos, arrivals, returned, blockedEver>>

\* lines 100-101: pthread_mutex_unlock(&barrier->mutex); return 0;
ReturnFollowerKeepsMutex(t) ==
    /\ pc[t] = "unlock0"
    /\ returned' = returned \cup {<<pos[t], 0>>}
    /\ pc' = [pc EXCEPT ![t] = "idle"]
    /\ UNCHANGED <<count, tripCount, mutexOK, condOK, mutexOwner, waiters,
                   initRet, errno, initArgs, plan, todo, pos, arrivals,
                   blockedEver>>

ReturnFollower(t) ==
    /\ pc[t] = "unlock0"
    /\ mutexOwner' = 0
    /\ returned' = returned \cup {<<pos[t], 0>>}
    /\ pc' = [pc EXCEPT ![t] = "idle"]
    /\ UNCHANGED <<count, tripCount, mutexOK, condOK, waiters, initRet, errno,
                   initArgs, plan, todo, pos, arrivals, blockedEver>>

\* One step of thread t inside pthread_barrier_wait, spurious wakeups aside.
AwaitStep(t) ==
    \/ Lock(t)
    \/ Incr(t)
    \/ Test(t)
    \/ Reset(t)
    \/ Broadcast(t)
    \/ ReturnLast(t)
    \/ CondWait(t)
    \/ Reacquire(t)
    \/ ReturnFollower(t)

\* ============================================ macos_pthread_mutex_timedlock
\* One thread (Caller) calls macos_pthread_mutex_timedlock on a mutex that
\* NLockers other threads take with pthread_mutex_lock and release again.

\* Number of other threads locking the same mutex.
NLockers == 2
\* Largest number of pthread_mutex_trylock attempts followed in one call.
MaxAttempts == 6

Caller == 0
Lockers == 1..NLockers

\* errno values returned at lines 120 and 134
EBUSY == 16
ETIMEDOUT == 60

\* line 122: the polling quantum, 10 ms in nanoseconds
Quantum == 10000000
\* line 131: the number the borrow adds to tv_nsec
BorrowBase == 1000000

\* abs_timeout values handed to the function
TimeoutSecs == {0, 1, 2}
TimeoutNsecs == {0, 3000000, 10000000, 25000000}
\* What the uninitialised local `slept` (line 117) may hold on entry.
UninitNsec == {0, 4000000, 10000000, -3000000}
\* Readings of the clock of abs_timeout at the time of the call.
ClockSecs == {0, 1}
ClockNsecs == {0, 5000000}

VARIABLES
    lockValid,    \* *mutex is an initialised mutex
    holders,      \* threads that hold *mutex
    tpc,          \* position of Caller in macos_pthread_mutex_timedlock
    rv,           \* rv
    remaining,    \* remaining (tv_sec, tv_nsec)
    ts,           \* ts.tv_nsec
    slept,        \* slept.tv_nsec
    tret,         \* <<value>> returned by the last call, <<>> if none
    absTimeout,   \* history: *abs_timeout of the call
    callTime,     \* history: the clock when the call was made
    elapsed,      \* history: nanoseconds the call has spent in nanosleep
    lastSlept,    \* history: nanoseconds the last nanosleep lasted
    attempts,     \* history: pthread_mutex_trylock calls of this call
    sleeps,       \* history: nanosleep calls of this call
    freeAtCall,   \* history: the mutex was free when the call was made
    contended     \* history: another thread took the mutex during the call

lvars == <<lockValid, holders, tpc, rv, remaining, ts, slept, tret,
           absTimeout, callTime, elapsed, lastSlept, attempts, sleeps,
           freeAtCall, contended>>

vars == <<bvars, lvars>>

NoTime == [tv_sec |-> 0, tv_nsec |-> 0]

\* line 119: remaining = *abs_timeout;
TimedLockCall(sec, nsec, garbage, now) ==
    /\ tpc = "idle"
    /\ Caller \notin holders
    /\ absTimeout' = [tv_sec |-> sec, tv_nsec |-> nsec]
    /\ callTime' = now
    /\ elapsed' = 0
    /\ lastSlept' = 0
    /\ remaining' = [tv_sec |-> sec, tv_nsec |-> nsec]
    /\ slept' = garbage
    /\ ts' = 0
    /\ rv' = 0
    /\ attempts' = 0
    /\ sleeps' = 0
    /\ tret' = <<>>
    /\ freeAtCall' = (holders = {})
    /\ contended' = FALSE
    /\ tpc' = "try"
    /\ UNCHANGED <<lockValid, holders>>

\* pthread_mutex_trylock(mutex): EINVAL on what is no mutex, 0 and the lock
\* when it is free, EBUSY when it is held.
TrylockResult == IF ~lockValid THEN EINVAL
                 ELSE IF holders = {} THEN 0 ELSE EBUSY

\* line 120: while ((rv = pthread_mutex_trylock(mutex)) == EBUSY)
KeepPollingAlways(r) == TRUE
KeepPollingUnlessBusy(r) == r # EBUSY
KeepPolling(r) == r = EBUSY

TimedLockTry ==
    /\ tpc = "try"
    /\ attempts < MaxAttempts
    /\ attempts' = attempts + 1
    /\ rv' = TrylockResult
    /\ holders' = IF TrylockResult = 0 THEN holders \cup {Caller} ELSE holders
    /\ tpc' = IF KeepPolling(TrylockResult) THEN "compute" ELSE "return"
    /\ UNCHANGED <<lockValid, remaining, ts, slept, tret, absTimeout, callTime,
                   elapsed, lastSlept, sleeps, freeAtCall, contended>>

\* lines 121-123: ts.tv_nsec = (remaining.tv_sec > 0 ? 10000000 :
\*       (remaining.tv_nsec < 10000000 ? remaining.tv_nsec : 10000000));
SleepRequest(rem) ==
    IF rem.tv_sec > 0 THEN Quantum
    ELSE IF rem.tv_nsec < Quantum THEN rem.tv_nsec ELSE Quantum

TimedLockCompute ==
    /\ tpc = "compute"
    /\ ts' = SleepRequest(remaining)
    /\ tpc' = "sleep"
    /\ UNCHANGED <<lockValid, holders, rv, remaining, slept, tret, absTimeout,
                   callTime, elapsed, lastSlept, attempts, sleeps, freeAtCall,
                   contended>>

\* nanosleep interrupted by a signal stores the time not slept, which is
\* positive and at most the time requested.
Unslept(req) == {r \in {req, req \div 2} : r > 0}

\* line 124: nanosleep(&ts, &slept);
\* a nanosleep that runs to its end leaves slept as it was
TimedLockSleep ==
    /\ tpc = "sleep"
    /\ sleeps' = sleeps + 1
    /\ \/ slept' = slept /\ lastSlept' = ts
       \/ \E r \in Unslept(ts) : slept' = r /\ lastSlept' = ts - r
    /\ elapsed' = elapsed + lastSlept'
    /\ tpc' = "update"
    /\ UNCHANGED <<lockValid, holders, rv, remaining, ts, tret, absTimeout,
                   callTime, attempts, freeAtCall, contended>>

\* lines 125-132: the time slept is taken off remaining
AfterSleep(rem, t) ==
    IF t <= rem.tv_nsec
    THEN [tv_sec |-> rem.tv_sec, tv_nsec |-> rem.tv_nsec - t]
    ELSE [tv_sec |-> rem.tv_sec - 1,
          tv_nsec |-> BorrowBase - (t - rem.tv_nsec)]

TimedLockUpdate ==
    /\ tpc = "update"
    /\ ts' = ts - slept
    /\ remaining' = AfterSleep(remaining, ts - slept)
    /\ tpc' = "check"
    /\ UNCHANGED <<lockValid, holders, rv, slept, tret, absTimeout, callTime,
                   elapsed, lastSlept, attempts, sleeps, freeAtCall, contended>>

\* line 133: if (remaining.tv_sec < 0 ||
\*               (!remaining.tv_sec && remaining.tv_nsec <= 0))
Expired(rem) ==
    rem.tv_sec < 0 \/ (rem.tv_sec = 0 /\ rem.tv_nsec <= 0)

\* line 134: return ETIMEDOUT;
TimeoutStatusLastRv == rv
TimeoutStatus == ETIMEDOUT

TimedLockCheck ==
    /\ tpc = "check"
    /\ IF Expired(remaining)
       THEN tret' = <<TimeoutStatus>> /\ tpc' = "done"
       ELSE tret' = tret /\ tpc' = "try"
    /\ UNCHANGED <<lockValid, holders, rv, remaining, ts, slept, absTimeout,
                   callTime, elapsed, lastSlept, attempts, sleeps, freeAtCall,
                   contended>>

\* line 138: return rv;
TimedLockReturn ==
    /\ tpc = "return"
    /\ tret' = <<rv>>
    /\ tpc' = "done"
    /\ UNCHANGED <<lockValid, holders, rv, remaining, ts, slept, absTimeout,
                   callTime, elapsed, lastSlept, attempts, sleeps, freeAtCall,
                   contended>>

\* After the call the caller releases the mutex if it got it, and may call
\* again; the locals of the finished call are gone.
CallerUnlock ==
    /\ tpc = "done"
    /\ holders' = holders \ {Caller}
    /\ tpc' = "idle"
    /\ rv' = 0
    /\ remaining' = NoTime
    /\ ts' = 0
    /\ slept' = 0
    /\ tret' = <<>>
    /\ absTimeout' = NoTime
    /\ callTime' = NoTime
    /\ elapsed' = 0
    /\ lastSlept' = 0
    /\ attempts' = 0
    /\ sleeps' = 0
    /\ freeAtCall' = FALSE
    /\ contended' = FALSE
    /\ UNCHANGED lockValid

\* Another thread's pthread_mutex_lock returns: the mutex was free.
LockerLock(u) ==
    /\ lockValid
    /\ holders = {}
    /\ holders' = {u}
    /\ contended' = (contended \/ tpc \notin {"idle", "done"})
    /\ UNCHANGED <<lockValid, tpc, rv, remaining, ts, slept, tret, absTimeout,
                   callTime, elapsed, lastSlept, attempts, sleeps, freeAtCall>>

\* Another thread's pthread_mutex_unlock.
LockerUnlock(u) ==
    /\ u \in holders
    /\ holders' = holders \ {u}
    /\ UNCHANGED <<lockValid, tpc, rv, remaining, ts, slept, tret, absTimeout,
                   callTime, elapsed, lastSlept, attempts, sleeps, freeAtCall,
                   contended>>

LockInit ==
    /\ lockValid \in BOOLEAN
    /\ holders = {}
    /\ tpc = "idle"
    /\ rv = 0
    /\ remaining = NoTime
    /\ ts = 0
    /\ slept = 0
    /\ tret = <<>>
    /\ absTimeout = NoTime
    /\ callTime = NoTime
    /\ elapsed = 0
    /\ lastSlept = 0
    /\ attempts = 0
    /\ sleeps = 0
    /\ freeAtCall = FALSE
    /\ contended = FALSE

\* ---------------------------------------------------------- specifications
BarrierInit ==
    /\ count = 0
    /\ tripCount = 0
    /\ mutexOK = FALSE
    /\ condOK = FALSE
    /\ mutexOwner = 0
    /\ waiters = {}
    /\ initRet = <<>>
    /\ errno = 0
    /\ initArgs = NoArgs
    /\ pc = [t \in Threads |-> "idle"]
    /\ plan = [t \in Threads |-> 0]
    /\ todo = [t \in Threads |-> 0]
    /\ pos = [t \in Threads |-> 0]
    /\ arrivals = 0
    /\ returned = {}
    /\ blockedEver = FALSE

\* The timed lock's mutex is not used by the barrier: the barrier's
\* specifications leave it alone, on a mutex that is valid.
Init == BarrierInit /\ LockInit /\ lockValid

CreateStep ==
    \E c \in 0..NThreads, rm \in InitResults, rc \in InitResults :
        pthread_barrier_init(c, rm, rc)

\* The barrier on a condition variable whose waits end only by a broadcast.
NextNoSpurious ==
    \/ CreateStep /\ UNCHANGED lvars
    \/ pthread_barrier_destroy /\ UNCHANGED lvars
    \/ \E t \in Threads : Call(t) /\ UNCHANGED lvars
    \/ \E t \in Threads : AwaitStep(t) /\ UNCHANGED lvars

SpecNoSpurious == Init /\ [][NextNoSpurious]_vars

\* The counts at both ends of the unsigned parameter's range and on both
\* sides of INT_MAX.
WideCounts == {0, 1, IntMax, IntMax + 1, UIntMax}

WideCreateStep ==
    \E c \in WideCounts, rm \in InitResults, rc \in InitResults :
        pthread_barrier_init(c, rm, rc)

\* The barrier created with any count the unsigned parameter can hold.
WideNext ==
    \/ WideCreateStep /\ UNCHANGED lvars
    \/ pthread_barrier_destroy /\ UNCHANGED lvars
    \/ \E t \in Threads : Call(t) /\ UNCHANGED lvars
    \/ \E t \in Threads : AwaitStep(t) /\ UNCHANGED lvars
    \/ \E t \in Threads : SpuriousWake(t) /\ UNCHANGED lvars

WideSpec == Init /\ [][WideNext]_vars

\* The barrier on a POSIX condition variable.
Next ==
    \/ CreateStep /\ UNCHANGED lvars
    \/ pthread_barrier_destroy /\ UNCHANGED lvars
    \/ \E t \in Threads : Call(t) /\ UNCHANGED lvars
    \/ \E t \in Threads : AwaitStep(t) /\ UNCHANGED lvars
    \/ \E t \in Threads : SpuriousWake(t) /\ UNCHANGED lvars

Spec == Init /\ [][Next]_vars

\* The scheduler runs every thread that can take a step; a spurious wakeup
\* is never owed to anyone.
Fairness ==
    \A t \in Threads :
        /\ WF_vars(Call(t) /\ UNCHANGED lvars)
        /\ WF_vars(AwaitStep(t) /\ UNCHANGED lvars)

LiveSpec == Spec /\ Fairness

LiveSpecNoSpurious == SpecNoSpurious /\ Fairness

\* The timed lock: one caller and the other lockers of its mutex.
TimedLockInit == BarrierInit /\ LockInit

TimedLockCallStep ==
    \E sec \in TimeoutSecs, nsec \in TimeoutNsecs, g \in UninitNsec,
       csec \in ClockSecs, cnsec \in ClockNsecs :
        TimedLockCall(sec, nsec, g, [tv_sec |-> csec, tv_nsec |-> cnsec])

TimedLockNext ==
    \/ TimedLockCallStep /\ UNCHANGED bvars
    \/ TimedLockTry /\ UNCHANGED bvars
    \/ TimedLockCompute /\ UNCHANGED bvars
    \/ TimedLockSleep /\ UNCHANGED bvars
    \/ TimedLockUpdate /\ UNCHANGED bvars
    \/ TimedLockCheck /\ UNCHANGED bvars
    \/ TimedLockReturn /\ UNCHANGED bvars
    \/ CallerUnlock /\ UNCHANGED bvars
    \/ \E u \in Lockers : LockerLock(u) /\ UNCHANGED bvars
    \/ \E u \in Lockers : LockerUnlock(u) /\ UNCHANGED bvars

TimedLockSpec == TimedLockInit /\ [][TimedLockNext]_vars

\* ------------------------------------------------------------ cycle algebra
\* The cycle of the p-th increment since pthread_barrier_init, and the number
\* of increments that complete that cycle.
CycleOf(p) == ((p - 1) \div tripCount) + 1
CycleEnd(p) == CycleOf(p) * tripCount

\* N threads (the first N), k calls each, on a barrier of N.
EvenPlan(k) == [t \in Threads |-> IF t <= tripCount THEN k ELSE 0]

AllReturned ==
    /\ \A t \in Threads : pc[t] = "idle" /\ todo[t] = 0
    /\ \A p \in 1..arrivals : \E r \in {0, 1} : <<p, r>> \in returned

\* ------------------------------------------------------------------- claims

\* C1: on a condition variable whose waits end only by a broadcast, no call
\* of pthread_barrier_wait has returned while fewer increments than complete
\* its cycle have been made.
FullRendezvous ==
    \A e \in returned : arrivals >= CycleEnd(e[1])

\* C1 witness: on a barrier of 3, followers of the first and of the second
\* cycle have returned.
FullRendezvousWitness ==
    /\ tripCount = 3
    /\ {<<1, 0>>, <<2, 0>>, <<3, 1>>, <<4, 0>>} \subseteq returned

\* C2: when N threads are each to call pthread_barrier_wait once on a barrier
\* of N, all N calls eventually return.
NoMissedWakeup ==
    (Usable /\ plan = EvenPlan(1)) ~> (AllReturned /\ arrivals = tripCount)

\* C2 witness: three threads called once each on a barrier of 3, two of them
\* blocked on the condition, and all three have returned.
NoMissedWakeupWitness ==
    /\ Usable
    /\ tripCount = 3
    /\ plan = EvenPlan(1)
    /\ AllReturned
    /\ returned = {<<1, 0>>, <<2, 0>>, <<3, 1>>}

\* C3: a call returns 1 exactly when its increment completed a cycle, so each
\* cycle has one call returning 1 and N-1 returning 0; the thread that takes
\* the branch of line 90 is the one that brought count to tripCount.
OneLastArriver ==
    /\ \A e \in returned : (e[2] = 1) <=> (e[1] % tripCount = 0)
    /\ \A t \in Threads :
         /\ pc[t] = "reset" => count = tripCount /\ pos[t] % tripCount = 0
         /\ pc[t] = "wait" => count < tripCount /\ pos[t] % tripCount # 0

\* C3 witness: two full cycles of 3 have returned.
OneLastArriverWitness ==
    /\ tripCount = 3
    /\ returned = {<<1, 0>>, <<2, 0>>, <<3, 1>>, <<4, 0>>, <<5, 0>>, <<6, 1>>}

\* C4: on a barrier used again after its first cycle, the calls of every
\* later cycle form a rendezvous: none returns before the increment that
\* completes its cycle, exactly the completing call returns 1, and count is
\* 0 whenever a cycle has completed and the mutex is free.
ReusableRendezvous ==
    /\ \A e \in returned :
         e[1] > tripCount =>
           /\ arrivals >= CycleEnd(e[1])
           /\ (e[2] = 1) <=> (e[1] % tripCount = 0)
    /\ (Usable /\ mutexOwner = 0 /\ arrivals % tripCount = 0) => count = 0

\* Reuse as progress: N threads making k calls each all return from all k
\* cycles.  It holds under LiveSpecNoSpurious and fails under LiveSpec, where
\* a thread that a spurious wakeup let through takes a place in the next
\* cycle and strands another thread.
ReusableAllReturn ==
    \A k \in 1..(MaxCalls \div NThreads) :
       (Usable /\ plan = EvenPlan(k)) ~>
           (AllReturned /\ arrivals = k * tripCount)

\* C5: no follower is past pthread_cond_wait (line 99) or has returned 0
\* while fewer increments than complete its cycle have been made.
NoEarlyRelease ==
    /\ \A t \in Threads :
         pc[t] = "unlock0" => arrivals >= CycleEnd(pos[t])
    /\ \A e \in returned : e[2] = 0 => arrivals >= CycleEnd(e[1])

\* C6: pthread_barrier_init(0) returns -1 with errno EINVAL and no mutex or
\* condition initialised; with count >= 1 and both resources created it
\* returns 0 with tripCount = count and count = 0.
CreateContract ==
    /\ initArgs.req = 0 =>
         initRet = <<-1>> /\ errno = EINVAL /\ ~mutexOK /\ ~condOK
    /\ (initArgs.req >= 1 /\ initArgs.rm = 0 /\ initArgs.rc = 0) =>
         /\ initRet = <<0>>
         /\ mutexOK /\ condOK
         /\ tripCount = initArgs.req
         /\ arrivals = 0 => count = 0

\* C6 witness: a barrier of 3 was created after a pthread_barrier_init(0)
\* had failed, and no thread has entered it yet.
CreateContractWitness ==
    /\ initArgs = [req |-> 3, rm |-> 0, rc |-> 0]
    /\ initRet = <<0>>
    /\ errno = EINVAL
    /\ arrivals = 0
    /\ count = 0 /\ tripCount = 3

\* C7: on a barrier of 1 no call ever blocks on the condition, every call
\* returns 1, and count is 0 whenever the mutex is free.
TripOneImmediate ==
    (initRet = <<0>> /\ tripCount = 1) =>
        /\ ~blockedEver
        /\ \A t \in Threads :
             pc[t] \notin {"wait", "blocked", "reacq", "unlock0"}
        /\ \A e \in returned : e[2] = 1
        /\ mutexOwner = 0 => count = 0

\* C7 witness: on a barrier of 1, four calls have returned and two more are
\* in progress at once.
TripOneImmediateWitness ==
    /\ Usable
    /\ tripCount = 1
    /\ {<<p, 1>> : p \in 1..4} \subseteq returned
    /\ \E t, u \in Threads : t # u /\ pc[t] = "unlock1" /\ pc[u] = "lock"

\* C8: when pthread_mutex_init or pthread_cond_init returned an error number,
\* pthread_barrier_init returned -1 and left no initialised mutex behind.
ResourceFailureReported ==
    (initArgs.req >= 1 /\ (initArgs.rm # 0 \/ initArgs.rc # 0)) =>
        initRet = <<-1>> /\ ~mutexOK

\* C9: the mutex never has two holders; a call that returned ETIMEDOUT left
\* the caller without the mutex and a call that returned 0 left it holding
\* the mutex.
TimedLockOwnership ==
    /\ Cardinality(holders) <= 1
    /\ (tpc = "done" /\ tret = <<ETIMEDOUT>>) => Caller \notin holders
    /\ (tpc = "done" /\ tret = <<0>>) => holders = {Caller}

\* C9 witness: the call polled more than once and timed out while another
\* thread holds the mutex.
TimedLockOwnershipWitness ==
    /\ tpc = "done"
    /\ tret = <<ETIMEDOUT>>
    /\ attempts >= 2
    /\ \E u \in Lockers : holders = {u}

\* C10: a call on a valid mutex that was free when the call was made, and
\* that no other thread took during the call, never sleeps and returns 0
\* after one pthread_mutex_trylock, holding the mutex.
UncontendedAcquires ==
    (lockValid /\ freeAtCall /\ ~contended) =>
        /\ tpc \notin {"compute", "sleep", "update", "check"}
        /\ sleeps = 0
        /\ tpc \in {"return", "done"} =>
             rv = 0 /\ attempts = 1 /\ holders = {Caller}
        /\ tpc = "done" => tret = <<0>>

\* C10 witness: an uncontended call with a timeout of 1.003 s has returned 0.
UncontendedAcquiresWitness ==
    /\ tpc = "done"
    /\ lockValid /\ freeAtCall /\ ~contended
    /\ absTimeout = [tv_sec |-> 1, tv_nsec |-> 3000000]
    /\ tret = <<0>>
    /\ holders = {Caller}

\* ----------------------------------------------------- timed lock and time
\* Nanoseconds from the call to the deadline *abs_timeout, on the clock the
\* deadline is expressed in; negative when the deadline had passed.
Interval ==
    (absTimeout.tv_sec - callTime.tv_sec) * 1000000000
        + (absTimeout.tv_nsec - callTime.tv_nsec)

\* Another thread has held the mutex ever since the call was made.
HeldThroughout == ~freeAtCall /\ ~contended /\ holders # {}

\* timespec a is earlier than timespec b
Earlier(a, b) ==
    \/ a.tv_sec < b.tv_sec
    \/ a.tv_sec = b.tv_sec /\ a.tv_nsec < b.tv_nsec

\* C11: a call whose deadline had passed when it was made tries the mutex
\* exactly once and returns 0 or ETIMEDOUT after that one attempt.
PastDeadlineOneAttempt ==
    (lockValid /\ tpc # "idle" /\ Interval < 0) =>
        /\ attempts <= 1
        /\ tpc = "done" =>
             attempts = 1 /\ tret \in {<<0>>, <<ETIMEDOUT>>}

\* C12: when another thread held the mutex from the call on, ETIMEDOUT is
\* returned no later than one quantum after the deadline.
TimeoutNotLate ==
    (tpc = "done" /\ tret = <<ETIMEDOUT>> /\ HeldThroughout /\ Interval >= 0)
        => elapsed <= Interval + Quantum

\* C13: ETIMEDOUT is returned only once the time spent since the call has
\* reached the interval between the call and the deadline.
NoEarlyTimeout ==
    (tpc = "done" /\ tret = <<ETIMEDOUT>>) => elapsed >= Interval

\* C14: every iteration whose nanosleep lasted some time leaves remaining
\* strictly smaller, which is what makes the retry loop end.
EverySleepShortensRemaining ==
    [][(tpc = "update" /\ tpc' = "check" /\ lastSlept > 0)
          => Earlier(remaining', remaining)]_vars

\* C15 as stated: the call returns only 0 or ETIMEDOUT.
OnlyAcquiredOrTimedOut ==
    tpc = "done" => tret \in {<<0>>, <<ETIMEDOUT>>}

\* C15 amended: on an initialised mutex the call returns only 0 or
\* ETIMEDOUT; on what is no mutex it returns the status of
\* pthread_mutex_trylock (EINVAL) unchanged; it never returns EBUSY.
ReturnsTrylockStatusOrTimeout ==
    tpc = "done" =>
        /\ lockValid => tret \in {<<0>>, <<ETIMEDOUT>>}
        /\ ~lockValid => tret = <<EINVAL>> /\ attempts = 1
        /\ tret # <<EBUSY>>

\* C15 witness: a call on what is no mutex has returned EINVAL, and (in
\* another run) a call on a held mutex has timed out.
ReturnsTrylockStatusOrTimeoutWitness ==
    /\ tpc = "done"
    /\ ~lockValid
    /\ tret = <<EINVAL>>
    /\ absTimeout = [tv_sec |-> 2, tv_nsec |-> 25000000]

\* C20: every sleep requested at line 124 is non-negative, at most the
\* quantum, and at most the time left until the deadline (nothing once
\* the deadline has passed).
SleepWithinDeadline ==
    tpc = "sleep" =>
        /\ 0 <= ts
        /\ ts <= Quantum
        /\ ts <= (IF Interval > elapsed THEN Interval - elapsed ELSE 0)

\* C20, the part that holds: the request is between 0 and the quantum and,
\* while remaining.tv_sec is 0, at most remaining.tv_nsec.
SleepWithinQuantum ==
    tpc = "sleep" =>
        /\ 0 <= ts
        /\ ts <= Quantum
        /\ remaining.tv_sec = 0 => ts <= remaining.tv_nsec

\* A timespec as one number of nanoseconds
TotalNs(r) == r.tv_sec * 1000000000 + r.tv_nsec

\* C21: the update of lines 125-132 leaves remaining equal to the previous
\* remaining minus the time the nanosleep before it lasted, borrow from
\* tv_sec included, with tv_nsec in 0 .. 999999999 while time remains.
RemainingBookkeeping ==
    [][(tpc = "update" /\ tpc' = "check") =>
          /\ TotalNs(remaining') = TotalNs(remaining) - lastSlept
          /\ ~Expired(remaining') =>
                 (0 <= remaining'.tv_nsec /\ remaining'.tv_nsec <= 999999999)]_vars

\* ------------------------------------------------ barrier, inside the wait
\* The threads on the branch of lines 91-95 (count reset, broadcast, return 1)
TripBranch == {t \in Threads : pc[t] \in {"reset", "bcast", "unlock1"}}

\* The program points of pthread_barrier_wait between a lock and the next
\* unlock (or the entry of pthread_cond_wait, which unlocks).
InsideMutex == {"incr", "test", "reset", "bcast", "unlock1", "wait", "unlock0"}

\* C16: on a created barrier 0 <= count <= tripCount, and count < tripCount
\* whenever no thread holds the barrier's mutex.
CountWithinTrip ==
    initRet = <<0>> =>
        /\ 0 <= count
        /\ count <= tripCount
        /\ mutexOwner = 0 => count < tripCount

\* C16 witness: in a second cycle of a barrier of two or more, the last
\* arriver has brought count up to tripCount and still holds the mutex.
CountWithinTripWitness ==
    /\ initRet = <<0>>
    /\ tripCount >= 2
    /\ count = tripCount
    /\ arrivals = 2 * tripCount
    /\ mutexOwner # 0

\* C17: per cycle exactly one thread, the one whose increment closes the
\* cycle, resets count and broadcasts, and does both holding the mutex; no
\* two threads are on the last-arriver branch and count is reset once.
OneResetPerCycle ==
    initRet = <<0>> =>
        /\ Cardinality(TripBranch) <= 1
        /\ \A t \in TripBranch :
             /\ mutexOwner = t
             /\ pos[t] = arrivals
             /\ pos[t] % tripCount = 0
             /\ pc[t] = "reset" => count = tripCount
             /\ pc[t] # "reset" => count = 0
        /\ \A t \in Threads :
             (pos[t] > 0 /\ pos[t] % tripCount = 0) =>
                 \/ pc[t] \in {"test", "reset", "bcast", "unlock1"}
                 \/ pc[t] = "idle" /\ <<pos[t], 1>> \in returned
        /\ \A r \in returned : r[2] = 1 => r[1] % tripCount = 0
        /\ \A r1, r2 \in returned : r1[1] = r2[1] => r1 = r2

\* C17 witness: the last arriver of the second cycle has reset count and
\* broadcast under the mutex, after the first cycle's last arriver returned 1.
OneResetPerCycleWitness ==
    /\ initRet = <<0>>
    /\ tripCount >= 2
    /\ arrivals = 2 * tripCount
    /\ <<tripCount, 1>> \in returned
    /\ \E t \in Threads :
         pc[t] = "unlock1" /\ pos[t] = arrivals /\ mutexOwner = t /\ count = 0

\* C18: a thread reads or writes count, and enters pthread_cond_wait, only
\* while it holds the barrier's mutex; a thread blocked in the wait, about
\* to lock, or returned from pthread_barrier_wait does not hold it.
MonitorDiscipline ==
    /\ \A t \in Threads :
         /\ pc[t] \in InsideMutex => mutexOwner = t
         /\ pc[t] \notin InsideMutex => mutexOwner # t
    /\ \A t \in waiters : pc[t] = "blocked"

\* C18 witness: one thread has returned 0 and holds nothing, another is
\* blocked on the condition, a third is testing count under the mutex.
MonitorDisciplineWitness ==
    \E t, u, v \in Threads :
        /\ pc[t] = "idle" /\ <<pos[t], 0>> \in returned
        /\ pc[u] = "blocked" /\ u \in waiters
        /\ pc[v] = "test" /\ mutexOwner = v

\* C19: a broadcast wakes only threads of the broadcaster's own cycle; a
\* thread that did not close its cycle returns 0 however late it resumes;
\* count holds the arrivals of the open cycle only, so a cycle trips after
\* tripCount arrivals of its own.
CrossCycle ==
    /\ [](initRet = <<0>> =>
            /\ \A r \in returned : r[1] % tripCount # 0 => r[2] = 0
            /\ \A t \in Threads :
                 pc[t] \in {"reacq", "unlock0"} => pos[t] % tripCount # 0
            /\ mutexOwner = 0 => count = arrivals % tripCount
            /\ \A t \in Threads :
                 pc[t] = "reset" =>
                     /\ count = tripCount
                     /\ arrivals = CycleOf(pos[t]) * tripCount)
    /\ [][\A u \in Threads :
            (pc[u] = "bcast" /\ pc'[u] = "unlock1") =>
                \A t \in Threads :
                    (pc[t] = "blocked" /\ pc'[t] = "reacq") =>
                        CycleOf(pos[t]) = CycleOf(pos[u])]_vars

\* C19 witness: a follower of the first cycle has not yet resumed from its
\* wait while the second cycle has had all its arrivals and has tripped.
CrossCycleWitness ==
    /\ initRet = <<0>>
    /\ tripCount >= 2
    /\ \E t, u \in Threads :
         /\ pc[t] = "reacq" /\ CycleOf(pos[t]) = 1
         /\ pc[u] = "unlock1" /\ CycleOf(pos[u]) = 2
         /\ arrivals = 2 * tripCount

\* ------------------------------------------------- barrier, count as an int
\* C22: for every count >= 1 of the unsigned parameter a successful
\* pthread_barrier_init stores a positive tripCount equal to that count, and
\* no thread takes the branch of line 90 before that many arrivals.
StoresRequestedCount ==
    (initRet = <<0>> /\ initArgs.req >= 1) =>
        /\ tripCount > 0
        /\ tripCount = initArgs.req
        /\ \A t \in TripBranch : arrivals >= initArgs.req
        /\ \A e \in returned : e[2] = 1 => arrivals >= initArgs.req

====
